---- MODULE Spec2Model ----
(***************************************************************************)
(* Model of src/main.c: the MVP counter.  The coordinator (main) counts    *)
(* the lines of the input file, builds a chaining hash table whose         *)
(* capacity is the line count, hands a half-open line range to each of     *)
(* numberOfThreads worker threads, joins them and writes the report sorted *)
(* by descending count.  Workers extract the text after the last comma of  *)
(* each of their lines and feed it to incrementOrInsertHashItem, whose     *)
(* body runs between pthread_mutex_lock and pthread_mutex_unlock.          *)
(*                                                                         *)
(* Strings are sequences of byte values.  Lines keep their terminator.     *)
(***************************************************************************)
EXTENDS Integers, Sequences, FiniteSets, Bags, TLC

\* ------------------------------------------------------------------ bounds
MaxLines == 3
MaxThreads == 2

\* -------------------------------------------------------- bytes and inputs
Comma == 44
CR == 13
LF == 10

\* "g,A\n", "g,M\r\n", "A,,AC\n" and the comma-less "L\n"
RecA == <<103, 44, 65, 10>>
RecM == <<103, 44, 77, 13, 10>>
RecAC == <<65, 44, 44, 65, 67, 10>>
RecNoComma == <<76, 10>>
Records == {RecA, RecM, RecAC, RecNoComma}

RECURSIVE SeqsUpTo(_, _)
SeqsUpTo(S, n) ==
    IF n = 0 THEN {<<>>}
    ELSE LET shorter == SeqsUpTo(S, n - 1)
         IN shorter \cup {Append(s, x) : s \in {q \in shorter : Len(q) = n - 1}, x \in S}

Files == SeqsUpTo(Records, MaxLines)

\* Names that reach the report's 24-column padding and its 100-byte buffer:
\* "Pe\303\261arol" (8 bytes, 7 code points) and runs of the letter a
Repeat(b, n) == [k \in 1 .. n |-> b]

KeyPenarol == <<80, 101, 195, 177, 97, 114, 111, 108>>
WideKeys == {KeyPenarol, Repeat(97, 24), Repeat(97, 25), Repeat(97, 99), Repeat(97, 100)}

\* one-record files "g,<name>\n" carrying those names
WideFiles == {<< <<103, Comma>> \o k \o <<LF>> >> : k \in WideKeys}

Threads == 0 .. (MaxThreads - 1)
NoOwner == -1

\* ------------------------------------------------------------ pure helpers

\* Faulty variant of ceilDivision: the quotient is not rounded up
FloorDivision(numerator, divisor) == numerator \div divisor

\* ceilDivision(numerator, divisor): C's truncating / and % on non-negative ints
ceilDivision(numerator, divisor) ==
    IF numerator % divisor = 0
    THEN numerator \div divisor
    ELSE (numerator \div divisor) + 1

\* Faulty variant of DistributeLoop: startLine is never advanced
RECURSIVE DistributeSameStart(_, _, _, _, _, _)
DistributeSameStart(i, n, startLine, linesPerThread, lineCount, acc) ==
    IF i >= n THEN acc
    ELSE LET sum == startLine + linesPerThread
             endLine == IF sum > lineCount THEN lineCount ELSE sum
         IN DistributeSameStart(i + 1, n, startLine, linesPerThread, lineCount,
                                Append(acc, [tid |-> i, startLine |-> startLine,
                                             endLine |-> endLine]))

\* Faulty variant of DistributeLoop: endLine is not clamped to lineCount
RECURSIVE DistributeUnclamped(_, _, _, _, _, _)
DistributeUnclamped(i, n, startLine, linesPerThread, lineCount, acc) ==
    IF i >= n THEN acc
    ELSE LET endLine == startLine + linesPerThread
         IN DistributeUnclamped(i + 1, n, endLine, linesPerThread, lineCount,
                                Append(acc, [tid |-> i, startLine |-> startLine,
                                             endLine |-> endLine]))

\* The loop of main that fills threadData[0 .. numberOfThreads-1]:
\* acc is the array filled so far, startLine the loop-carried variable.
RECURSIVE DistributeLoop(_, _, _, _, _, _)
DistributeLoop(i, n, startLine, linesPerThread, lineCount, acc) ==
    IF i >= n THEN acc
    ELSE LET sum == startLine + linesPerThread
             endLine == IF sum > lineCount THEN lineCount ELSE sum
         IN DistributeLoop(i + 1, n, endLine, linesPerThread, lineCount,
                           Append(acc, [tid |-> i, startLine |-> startLine,
                                        endLine |-> endLine]))

\* hashGenerator(key, size): the accumulator is reduced modulo size every
\* round, so it stays below size and hashValue * 31 + key[i] cannot reach the
\* 2^32 wrap of unsigned int for any table of fewer than 2^32 / 31 buckets.
\* Key bytes are below 128 (char is non-negative on them) except in the
\* one-record WideFiles, whose table has one bucket.
RECURSIVE HashLoop(_, _, _, _)
HashLoop(key, i, hashValue, size) ==
    IF i > Len(key) THEN hashValue
    ELSE HashLoop(key, i + 1, ((hashValue * 31) + key[i]) % size, size)

\* Faulty variant of hashGenerator: the value is not reduced modulo size
\* (the first byte alone already shows it; later bytes only make it larger)
HashUnreduced(key, size) == IF Len(key) = 0 THEN 0 ELSE key[1]

\* With one bucket every round reduces modulo 1: the result is 0 whatever the
\* key's bytes and length (and whatever the sign of char), so the loop is
\* not unfolded for it.
hashGenerator(key, size) == IF size = 1 THEN 0 ELSE HashLoop(key, 1, 0, size)

\* Faulty variant of StrRChrComma: strchr, the first comma instead of the last
StrChrComma(buffer) ==
    LET at == {i \in 1 .. Len(buffer) : buffer[i] = Comma}
    IN IF at = {} THEN 0 ELSE CHOOSE i \in at : \A k \in at : i <= k

\* strrchr(buffer, ','): index of the last comma, 0 when there is none
StrRChrComma(buffer) ==
    LET at == {i \in 1 .. Len(buffer) : buffer[i] = Comma}
    IN IF at = {} THEN 0 ELSE CHOOSE i \in at : \A k \in at : k <= i

\* strcspn(s, "\r\n"): length of the prefix holding neither CR nor LF
StrCSpnCRLF(s) ==
    LET at == {i \in 1 .. Len(s) : s[i] \in {CR, LF}}
    IN IF at = {} THEN Len(s) ELSE (CHOOSE i \in at : \A k \in at : i <= k) - 1

\* One filled slot of extractMVPNamesFromLineRange for a line with a comma:
\* strdup(strrchr(buffer, ',') + 1), then cut at the first CR or LF.
ExtractName(buffer) ==
    LET tail == SubSeq(buffer, StrRChrComma(buffer) + 1, Len(buffer))
    IN SubSeq(tail, 1, StrCSpnCRLF(tail))

HasComma(buffer) == StrRChrComma(buffer) # 0

\* A line without a comma: strrchr returns NULL and strdup(NULL + 1) is
\* undefined.  Besides a crash, the slot may end up holding any string; the
\* model lets it be the empty string or the whole line cut at CR/LF.
GarbageNames(buffer) == {<<>>, SubSeq(buffer, 1, StrCSpnCRLF(buffer))}

\* What one slot of the returned array can hold for a line
SlotNames(buffer) ==
    IF HasComma(buffer) THEN {ExtractName(buffer)} ELSE GarbageNames(buffer)

\* The arrays a reader can return for the 0-based half-open line range
\* [startLine, endLine) of the file: one slot per line, in file order.
RECURSIVE RangeNames(_, _, _)
RangeNames(lines, startLine, endLine) ==
    IF startLine >= endLine THEN {<<>>}
    ELSE {<<x>> \o rest : x \in SlotNames(lines[startLine + 1]),
                          rest \in RangeNames(lines, startLine + 1, endLine)}

RangeHasUB(lines, startLine, endLine) ==
    \E k \in (startLine + 1) .. endLine : ~HasComma(lines[k])

\* ------------------------------------------------------------------- state
VARIABLES
    file,             \* the input file: a sequence of lines
    pcMain,           \* main's position
    exitCode,         \* -1 while running or crashed, else main's return value
    numberOfThreads,
    lineCount,
    linesPerThread,
    table,            \* HashTable: [items, size, count]
    tableState,       \* "none" | "live" | "freed"
    mutexState,       \* "uninit" | "ready" | "destroyed"
    mutexOwner,       \* thread holding tableMutex, or NoOwner
    threadData,       \* sequence of [tid, startLine, endLine]
    mainI,            \* loop index of the create and join loops
    pc,               \* each worker's position
    fileContent,      \* each worker's extracted names
    j,                \* each worker's loop index (1-based)
    index,            \* each worker's bucket index inside incrementOrInsert
    current,          \* each worker's chain cursor: distance from the chain tail, 0 = NULL
    readFailed,       \* worker ended through the "Failed to read file content" branch
    extracted,        \* how many names the reader handed to each worker
    linesRead,        \* how many records each worker's reader actually read
    sortedItems,      \* the report writer's array after qsort
    report,           \* rows written to reporte_mvp.txt
    reportState,      \* "none" | "open" | "closed" | "failed"
    held,             \* per kind of resource: how many are obtained and not given back
    diedOf            \* "none", or what the process died of

vars == <<file, pcMain, exitCode, numberOfThreads, lineCount, linesPerThread,
          table, tableState, mutexState, mutexOwner, threadData, mainI, pc,
          fileContent, j, index, current, readFailed, extracted, linesRead,
          sortedItems, report, reportState, held, diedOf>>

mainVars == <<numberOfThreads, lineCount, linesPerThread, threadData, mainI>>
workerVars == <<pc, fileContent, j, index, current, readFailed, extracted, linesRead>>
reportVars == <<sortedItems, report, reportState>>
mutexVars == <<mutexState, mutexOwner>>
tableVars == <<table, tableState>>

\* what the program obtains and must give back: FILE handles (fopen/fclose)
\* and heap blocks (malloc, calloc, strdup / free)
Resources ==
    {"lineCountFile", "workerFile", "reportFile", "table", "items", "item", "itemKey",
     "threads", "threadData", "playerNames", "playerName", "sortedItems"}

\* n resources of kind r obtained (fopen, malloc, calloc, strdup) or given
\* back (fclose, free), starting from the tally h
Acquire(h, r, n) == [h EXCEPT ![r] = @ + n]
Release(h, r, n) == [h EXCEPT ![r] = @ - n]

EmptyTable == [items |-> <<>>, size |-> 0, count |-> 0]

Init ==
    /\ file \in Files \cup WideFiles
    /\ pcMain = "start"
    /\ exitCode = -1
    /\ numberOfThreads = 0
    /\ lineCount = 0
    /\ linesPerThread = 0
    /\ table = EmptyTable
    /\ tableState = "none"
    /\ mutexState = "uninit"
    /\ mutexOwner = NoOwner
    /\ threadData = <<>>
    /\ mainI = 0
    /\ pc = [t \in Threads |-> "idle"]
    /\ fileContent = [t \in Threads |-> <<>>]
    /\ j = [t \in Threads |-> 0]
    /\ index = [t \in Threads |-> 0]
    /\ current = [t \in Threads |-> 0]
    /\ readFailed = [t \in Threads |-> FALSE]
    /\ extracted = [t \in Threads |-> 0]
    /\ linesRead = [t \in Threads |-> 0]
    /\ sortedItems = <<>>
    /\ report = <<>>
    /\ reportState = "none"
    /\ held = [r \in Resources |-> 0]
    /\ diedOf = "none"

\* ------------------------------------------------------ coordinator (main)

\* main returns EXIT_FAILURE
ExitFailure ==
    /\ pcMain' = "done"
    /\ exitCode' = 1

\* argc check and atoi(argv[2]) <= 0 check
CheckArgs ==
    /\ pcMain = "start"
    /\ \E argc \in {2, 3}, n \in 0 .. MaxThreads :
         IF argc # 3 \/ n <= 0
         THEN /\ ExitFailure
              /\ UNCHANGED numberOfThreads
         ELSE /\ numberOfThreads' = n
              /\ pcMain' = "count"
              /\ UNCHANGED exitCode
    /\ UNCHANGED <<file, lineCount, linesPerThread, threadData, mainI, tableVars,
                   mutexVars, workerVars, reportVars, held, diedOf>>

\* getLineCountFromFile: fopen, one fgets per line (lines are shorter than
\* the 1024-byte buffer), fclose; -1 when fopen fails.  Then ceilDivision.
CountLines ==
    /\ pcMain = "count"
    /\ \E openOk \in BOOLEAN :
         IF ~openOk
         THEN /\ ExitFailure
              /\ UNCHANGED <<lineCount, linesPerThread, held>>
         ELSE /\ lineCount' = Len(file)
              /\ linesPerThread' = ceilDivision(Len(file), numberOfThreads)
              /\ held' = Release(Acquire(held, "lineCountFile", 1), "lineCountFile", 1)
              /\ pcMain' = "create_table"
              /\ UNCHANGED exitCode
    /\ UNCHANGED <<file, numberOfThreads, threadData, mainI, tableVars,
                   mutexVars, workerVars, reportVars, diedOf>>

\* Faulty variant of createHashTable: never fewer than one bucket
createHashTableAtLeastOne(size) ==
    [items |-> [b \in 0 .. (IF size = 0 THEN 0 ELSE size - 1) |-> <<>>],
     size |-> IF size = 0 THEN 1 ELSE size, count |-> 0]

\* createHashTable(size): calloc'ed bucket array, count 0
createHashTable(size) ==
    [items |-> [b \in 0 .. (size - 1) |-> <<>>], size |-> size, count |-> 0]

\* main's call of createHashTable: malloc of the table, calloc of its items
\* array; when the second fails the table is freed again
CreateTable ==
    /\ pcMain = "create_table"
    /\ \E tableOk, itemsOk \in BOOLEAN :
         IF ~tableOk
         THEN /\ ExitFailure
              /\ UNCHANGED <<tableVars, held>>
         ELSE IF ~itemsOk
         THEN /\ ExitFailure
              /\ held' = Release(Acquire(held, "table", 1), "table", 1)
              /\ UNCHANGED tableVars
         ELSE /\ table' = createHashTable(lineCount)
              /\ tableState' = "live"
              /\ held' = Acquire(Acquire(held, "table", 1), "items", 1)
              /\ pcMain' = "mutex_init"
              /\ UNCHANGED exitCode
    /\ UNCHANGED <<file, mainVars, mutexVars, workerVars, reportVars, diedOf>>

\* pthread_mutex_init(&tableMutex, NULL)
InitMutex ==
    /\ pcMain = "mutex_init"
    /\ mutexState' = "ready"
    /\ mutexOwner' = NoOwner
    /\ pcMain' = "alloc_threads"
    /\ UNCHANGED <<file, exitCode, mainVars, tableVars, workerVars, reportVars,
                   held, diedOf>>

\* the items chained in buckets b .. size-1
RECURSIVE ItemsFrom(_, _)
ItemsFrom(tbl, b) ==
    IF b >= tbl.size THEN 0 ELSE Len(tbl.items[b]) + ItemsFrom(tbl, b + 1)

\* Faulty variant of FreedByTable: the items are freed without their keys
FreedKeepingKeys(h, tbl) ==
    Release(Release(Release(h, "item", ItemsFrom(tbl, 0)), "items", 1), "table", 1)

\* what freeHashTable gives back: every chained item and its key, the items
\* array and the table
FreedByTable(h, tbl) ==
    Release(Release(Release(Release(h, "itemKey", ItemsFrom(tbl, 0)),
                            "item", ItemsFrom(tbl, 0)), "items", 1), "table", 1)

\* freeHashTable(table), called when h is the tally of what is held
freeHashTable(h) ==
    /\ table' = EmptyTable
    /\ tableState' = "freed"
    /\ held' = FreedByTable(h, table)

\* malloc of the pthread_t array and of the ThreadData array
AllocThreads ==
    /\ pcMain = "alloc_threads"
    /\ \E threadsOk, dataOk \in BOOLEAN :
         IF ~threadsOk
         THEN /\ freeHashTable(held)
              /\ ExitFailure
         ELSE IF ~dataOk
         THEN /\ freeHashTable(Release(Acquire(held, "threads", 1), "threads", 1))
              /\ ExitFailure
         ELSE /\ held' = Acquire(Acquire(held, "threads", 1), "threadData", 1)
              /\ pcMain' = "distribute"
              /\ UNCHANGED <<exitCode, tableVars>>
    /\ UNCHANGED <<file, mainVars, mutexVars, workerVars, reportVars, diedOf>>

\* the loop assigning [startLine, endLine) to every worker
Distribute ==
    /\ pcMain = "distribute"
    /\ threadData' = DistributeLoop(0, numberOfThreads, 0, linesPerThread, lineCount, <<>>)
    /\ mainI' = 0
    /\ pcMain' = "create"
    /\ UNCHANGED <<file, exitCode, numberOfThreads, lineCount, linesPerThread,
                   tableVars, mutexVars, workerVars, reportVars, held, diedOf>>

\* pthread_create(&threads[i], NULL, countPlayerOccurrences, &threadData[i])
CreateThread ==
    /\ pcMain = "create"
    /\ mainI < numberOfThreads
    /\ pc' = [pc EXCEPT ![mainI] = "extract"]
    /\ mainI' = mainI + 1
    /\ UNCHANGED <<file, pcMain, exitCode, numberOfThreads, lineCount, linesPerThread,
                   threadData, tableVars, mutexVars, fileContent, j, index, current,
                   readFailed, extracted, linesRead, reportVars, held, diedOf>>

CreateDone ==
    /\ pcMain = "create"
    /\ mainI >= numberOfThreads
    /\ mainI' = 0
    /\ pcMain' = "join"
    /\ UNCHANGED <<file, exitCode, numberOfThreads, lineCount, linesPerThread,
                   threadData, tableVars, mutexVars, workerVars, reportVars,
                   held, diedOf>>

\* Faulty variant of ThreadTerminated: the join does not wait for the worker
JoinReturnsAtOnce(i) == TRUE

\* pthread_join(threads[i], NULL) returns once worker i has terminated
ThreadTerminated(i) == pc[i] = "done"

JoinThread ==
    /\ pcMain = "join"
    /\ mainI < numberOfThreads
    /\ ThreadTerminated(mainI)
    /\ mainI' = mainI + 1
    /\ UNCHANGED <<file, pcMain, exitCode, numberOfThreads, lineCount, linesPerThread,
                   threadData, tableVars, mutexVars, workerVars, reportVars,
                   held, diedOf>>

JoinDone ==
    /\ pcMain = "join"
    /\ mainI >= numberOfThreads
    /\ pcMain' = "report"
    /\ UNCHANGED <<file, exitCode, mainVars, tableVars, mutexVars, workerVars,
                   reportVars, held, diedOf>>

\* ----------------------------------------- worker (countPlayerOccurrences)

Alive == pcMain # "crashed"

\* the process dies (segmentation fault, abort) of the given cause: nothing
\* runs any more
Crash(cause) ==
    /\ pcMain' = "crashed"
    /\ diedOf' = cause
    /\ UNCHANGED exitCode

\* Faulty variant of LoopPc: the body runs once before the test (do-while)
LoopPcBodyFirst(names, jj) == IF jj = 1 \/ jj <= Len(names) THEN "lock" ELSE "exit"

\* where the for loop of countPlayerOccurrences goes with loop index jj
LoopPc(names, jj) == IF jj <= Len(names) THEN "lock" ELSE "exit"

\* Between main's line count and a worker's own fopen the file may be cut
\* short by another process: the worker's handle then sees the file whole or
\* without its last record.
LostRecords == {0, 1}

\* how many fgets calls of the read loop succeed for the range
\* [startLine, endLine) when the file has lost its last `lost` records
RecordsRead(lines, startLine, endLine, lost) ==
    LET left == (Len(lines) - lost) - startLine
        rangeOfLines == endLine - startLine
    IN IF left <= 0 THEN 0 ELSE IF left < rangeOfLines THEN left ELSE rangeOfLines

\* A slot of the malloc'ed array that the read loop did not fill holds an
\* indeterminate pointer.  Using it is undefined: the process may die, or the
\* slot may read as some string; the model lets it read as the empty string.
StaleString == <<>>

\* Faulty variant of ReadFailure: exit(EXIT_FAILURE) instead of pthread_exit
ReadFailureEndsProcess(t) ==
    /\ readFailed' = [readFailed EXCEPT ![t] = TRUE]
    /\ pc' = [pc EXCEPT ![t] = "done"]
    /\ pcMain' = "done"
    /\ exitCode' = 1
    /\ UNCHANGED <<fileContent, j, extracted, linesRead, diedOf>>

\* extractMVPNamesFromLineRange returned NULL: the worker prints
\* "Failed to read file content" and calls pthread_exit
ReadFailure(t) ==
    /\ readFailed' = [readFailed EXCEPT ![t] = TRUE]
    /\ pc' = [pc EXCEPT ![t] = "done"]
    /\ UNCHANGED <<fileContent, j, extracted, linesRead, pcMain, exitCode, diedOf>>

\* extractMVPNamesFromLineRange, called first thing by the worker.  fopen or
\* the malloc of the array may fail (the worker then reports and exits).  The
\* read loop fills one slot per record it reads; a line without a comma and a
\* slot left unfilled by a short read are undefined behaviour.  The death of
\* the process on an unfilled slot (in the strip loop, or later when the slot
\* is handed to incrementOrInsertHashItem or to free) is placed here.
Extract(t) ==
    /\ Alive
    /\ pc[t] = "extract"
    /\ LET d == threadData[t + 1]
       IN \E openOk, allocOk \in BOOLEAN :
            IF ~openOk
            THEN /\ ReadFailure(t)
                 /\ UNCHANGED held
            ELSE IF ~allocOk
            THEN /\ ReadFailure(t)
                 /\ held' = Release(Acquire(held, "workerFile", 1), "workerFile", 1)
            ELSE \E lost \in LostRecords :
                   LET got == RecordsRead(file, d.startLine, d.endLine, lost)
                       unfilled == (d.endLine - d.startLine) - got
                   IN \/ /\ RangeHasUB(file, d.startLine, d.startLine + got)
                         /\ Crash("NoComma")
                         /\ UNCHANGED <<pc, fileContent, j, readFailed, extracted,
                                        linesRead, held>>
                      \/ /\ unfilled > 0
                         /\ Crash("UnfilledSlot")
                         /\ UNCHANGED <<pc, fileContent, j, readFailed, extracted,
                                        linesRead, held>>
                      \/ \E names \in RangeNames(file, d.startLine, d.startLine + got) :
                           LET handed == names \o [k \in 1 .. unfilled |-> StaleString]
                           IN /\ fileContent' = [fileContent EXCEPT ![t] = handed]
                              /\ j' = [j EXCEPT ![t] = 1]
                              /\ pc' = [pc EXCEPT ![t] = LoopPc(handed, 1)]
                              /\ extracted' = [extracted EXCEPT ![t] = Len(handed)]
                              /\ linesRead' = [linesRead EXCEPT ![t] = got]
                              /\ held' = Release(Acquire(Acquire(Acquire(held,
                                               "workerFile", 1), "playerNames", 1),
                                               "playerName", got), "workerFile", 1)
                              /\ UNCHANGED <<readFailed, pcMain, exitCode, diedOf>>
    /\ UNCHANGED <<file, mainVars, tableVars, mutexVars, index, current, reportVars>>

\* Faulty variant of MutexAvailable: the lock call never blocks
MutexNeverBlocks == TRUE

\* pthread_mutex_lock can return only while nobody holds the mutex
MutexAvailable == mutexOwner = NoOwner

\* incrementOrInsertHashItem: pthread_mutex_lock, then the bucket index
Lock(t) ==
    /\ Alive
    /\ pc[t] = "lock"
    /\ MutexAvailable
    /\ mutexOwner' = t
    /\ index' = [index EXCEPT ![t] = hashGenerator(fileContent[t][j[t]], table.size)]
    /\ pc' = [pc EXCEPT ![t] = "search"]
    /\ UNCHANGED <<file, pcMain, exitCode, mainVars, tableVars, mutexState,
                   fileContent, j, current, readFailed, extracted, linesRead,
                   reportVars, held, diedOf>>

\* Faulty variant of FindInChain: only the head of the chain is compared
FindAtHeadOnly(chain, key) ==
    IF Len(chain) > 0 /\ chain[1].key = key THEN 1 ELSE 0

\* the while loop over the chain: position (from the head) of the first item
\* whose key equals key, 0 when the walk reaches NULL
FindInChain(chain, key) ==
    LET at == {p \in 1 .. Len(chain) : chain[p].key = key}
    IN IF at = {} THEN 0 ELSE CHOOSE p \in at : \A q \in at : p <= q

Search(t) ==
    /\ Alive
    /\ pc[t] = "search"
    /\ LET chain == table.items[index[t]]
           p == FindInChain(chain, fileContent[t][j[t]])
       IN IF p = 0
          THEN /\ current' = [current EXCEPT ![t] = 0]
               /\ pc' = [pc EXCEPT ![t] = "insert"]
          ELSE /\ current' = [current EXCEPT ![t] = Len(chain) - p + 1]
               /\ pc' = [pc EXCEPT ![t] = "increment"]
    /\ UNCHANGED <<file, pcMain, exitCode, mainVars, tableVars, mutexVars,
                   fileContent, j, index, readFailed, extracted, linesRead,
                   reportVars, held, diedOf>>

\* current->value += 1 on the item the walk stopped at
IncrementAt(tbl, b, fromTail) ==
    LET chain == tbl.items[b]
        p == Len(chain) - fromTail + 1
    IN [tbl EXCEPT !.items[b][p].value = @ + 1]

Increment(t) ==
    /\ Alive
    /\ pc[t] = "increment"
    /\ table' = IncrementAt(table, index[t], current[t])
    /\ pc' = [pc EXCEPT ![t] = "unlock_found"]
    /\ UNCHANGED <<file, pcMain, exitCode, mainVars, tableState, mutexVars,
                   fileContent, j, index, current, readFailed, extracted, linesRead,
                   reportVars, held, diedOf>>

\* createHashItem(key, value)
createHashItem(key, value) == [key |-> key, value |-> value]

\* Faulty variant of InsertAtHead: newItem->next is left NULL, so the items
\* already in the bucket are dropped from the chain
InsertDroppingChain(tbl, b, item) ==
    [tbl EXCEPT !.items[b] = <<item>>, !.count = @ + 1]

\* Faulty variant of InsertAtHead: table->count is not incremented
InsertWithoutCount(tbl, b, item) ==
    [tbl EXCEPT !.items[b] = <<item>> \o @]

\* new item pushed at the head of the chain, table->count++
InsertAtHead(tbl, b, item) ==
    [tbl EXCEPT !.items[b] = <<item>> \o @, !.count = @ + 1]

\* createHashItem: malloc of the item, strdup of the key (the item is freed
\* again when strdup fails).  Its NULL result is not checked: newItem->next
\* then dereferences NULL and the process dies, inside the locked region.
Insert(t) ==
    /\ Alive
    /\ pc[t] = "insert"
    /\ \E itemOk, keyOk \in BOOLEAN :
         IF ~itemOk
         THEN /\ Crash("NullItem")
              /\ UNCHANGED <<table, pc, held>>
         ELSE IF ~keyOk
         THEN /\ Crash("NullItem")
              /\ held' = Release(Acquire(held, "item", 1), "item", 1)
              /\ UNCHANGED <<table, pc>>
         ELSE /\ table' = InsertAtHead(table, index[t],
                                       createHashItem(fileContent[t][j[t]], 1))
              /\ pc' = [pc EXCEPT ![t] = "unlock_new"]
              /\ held' = Acquire(Acquire(held, "item", 1), "itemKey", 1)
              /\ UNCHANGED <<pcMain, exitCode, diedOf>>
    /\ UNCHANGED <<file, mainVars, tableState, mutexVars, fileContent, j, index,
                   current, readFailed, extracted, linesRead, reportVars>>

\* one whole call on a table no other thread touches: lock, index, walk,
\* increment or insert, unlock
incrementOrInsertHashItem(tbl, key, value) ==
    LET b == hashGenerator(key, tbl.size)
        p == FindInChain(tbl.items[b], key)
    IN IF p = 0
       THEN InsertAtHead(tbl, b, createHashItem(key, value))
       ELSE IncrementAt(tbl, b, Len(tbl.items[b]) - p + 1)

\* the worker's for loop run alone from slot k on
RECURSIVE FeedNames(_, _, _)
FeedNames(tbl, names, k) ==
    IF k > Len(names) THEN tbl
    ELSE FeedNames(incrementOrInsertHashItem(tbl, names[k], 1), names, k + 1)

\* pthread_mutex_unlock(&tableMutex)
MutexAfterUnlock == NoOwner

\* back in the worker's loop (the call's locals are gone):
\* free(fileContent[j]), j++.  The free gives a name back when slot j was
\* filled by the reader's strdup.
AfterCall(t) ==
    /\ held' = Release(held, "playerName", IF j[t] <= linesRead[t] THEN 1 ELSE 0)
    /\ j' = [j EXCEPT ![t] = @ + 1]
    /\ index' = [index EXCEPT ![t] = 0]
    /\ current' = [current EXCEPT ![t] = 0]
    /\ pc' = [pc EXCEPT ![t] = LoopPc(fileContent[t], j[t] + 1)]

\* Faulty variant of MutexAfterFoundReturn: return without unlocking
MutexKeptOnFound == mutexOwner

\* the unlock on the key-found path, then the return to the loop
MutexAfterFoundReturn == MutexAfterUnlock

UnlockFound(t) ==
    /\ Alive
    /\ pc[t] = "unlock_found"
    /\ mutexOwner' = MutexAfterFoundReturn
    /\ AfterCall(t)
    /\ UNCHANGED <<file, pcMain, exitCode, mainVars, tableVars, mutexState,
                   fileContent, readFailed, extracted, linesRead, reportVars,
                   diedOf>>

\* the unlock at the end of the insert path, then the return to the loop
UnlockNew(t) ==
    /\ Alive
    /\ pc[t] = "unlock_new"
    /\ mutexOwner' = MutexAfterUnlock
    /\ AfterCall(t)
    /\ UNCHANGED <<file, pcMain, exitCode, mainVars, tableVars, mutexState,
                   fileContent, readFailed, extracted, linesRead, reportVars,
                   diedOf>>

\* free(fileContent); pthread_exit(NULL)
ThreadExit(t) ==
    /\ Alive
    /\ pc[t] = "exit"
    /\ pc' = [pc EXCEPT ![t] = "done"]
    /\ fileContent' = [fileContent EXCEPT ![t] = <<>>]
    /\ held' = Release(held, "playerNames", 1)
    /\ UNCHANGED <<file, pcMain, exitCode, mainVars, tableVars, mutexVars,
                   j, index, current, readFailed, extracted, linesRead, reportVars,
                   diedOf>>

Worker(t) ==
    \/ Extract(t)
    \/ Lock(t)
    \/ Search(t)
    \/ Increment(t)
    \/ Insert(t)
    \/ UnlockFound(t)
    \/ UnlockNew(t)
    \/ ThreadExit(t)

\* ----------------------- report (writeReportOfPlayersSortedByMVPCount)

\* the traversal of buckets b .. size-1, each chain from its head
RECURSIVE CollectFrom(_, _)
CollectFrom(tbl, b) ==
    IF b >= tbl.size THEN <<>>
    ELSE [k \in 1 .. Len(tbl.items[b]) |->
              [key |-> tbl.items[b][k].key, value |-> tbl.items[b][k].value]]
         \o CollectFrom(tbl, b + 1)

\* Faulty variant of compareHashItems: operands swapped (ascending order)
CompareAscending(a, b) == a.value - b.value

\* compareHashItems(a, b)
compareHashItems(a, b) == b.value - a.value

Arrangements(n) == {f \in [1 .. n -> 1 .. n] : \A a, b \in 1 .. n : f[a] = f[b] => a = b}

\* qsort(base, nmemb, size, compar): some arrangement of the array in which
\* no element comes before one the comparator orders ahead of it (the order
\* of elements that compare equal is unspecified)
QSortResults(arr, nmemb) ==
    {[k \in 1 .. nmemb |-> arr[f[k]]] : f \in
        {g \in Arrangements(nmemb) :
            \A a, b \in 1 .. nmemb : a < b => compareHashItems(arr[g[a]], arr[g[b]]) <= 0}}

\* malloc of the sortable array (not checked), the bucket traversal, qsort.
\* A NULL array is written to as soon as there is one item: the process dies.
ReportCollect ==
    /\ pcMain = "report"
    /\ \E allocOk \in BOOLEAN :
         IF ~allocOk /\ table.count > 0
         THEN /\ Crash("NullSortedItems")
              /\ UNCHANGED <<sortedItems, held>>
         ELSE LET all == CollectFrom(table, 0)
                  n == IF table.count <= Len(all) THEN table.count ELSE Len(all)
              IN /\ sortedItems' \in QSortResults(all, n)
                 /\ held' = Acquire(held, "sortedItems", IF allocOk THEN 1 ELSE 0)
                 /\ pcMain' = "report_open"
                 /\ UNCHANGED <<exitCode, diedOf>>
    /\ UNCHANGED <<file, mainVars, tableVars, mutexVars, workerVars, report,
                   reportState>>

\* countVisibleCharacters(str): bytes that are not UTF-8 continuation bytes
countVisibleCharacters(str) ==
    Cardinality({i \in 1 .. Len(str) : (str[i] \div 64) % 4 # 2})

Space == 32
ColumnWidth == 24
BufferSize == 100

\* buffer after strcpy and the padding loop, were the buffer large enough
PaddedBuffer(key) ==
    LET visible == countVisibleCharacters(key)
    IN key \o [k \in 1 .. (IF visible < ColumnWidth THEN ColumnWidth - visible ELSE 0)
                  |-> Space]

\* the padded name and its terminating NUL fit into char buffer[100]
FitsBuffer(key) == Len(PaddedBuffer(key)) < BufferSize

\* What the row can show before the '|'.  strcpy or strcat past the end of
\* the buffer is undefined: besides the death of the process, the row may
\* carry the text as computed or any other text (the model takes the empty one).
GarbledText == <<>>

RowTexts(key) ==
    IF FitsBuffer(key) THEN {PaddedBuffer(key)} ELSE {PaddedBuffer(key), GarbledText}

\* free(sortedItems) gives the array back unless the pointer is NULL (the
\* malloc of the array failed)
FreedSortedItems(h) == Release(h, "sortedItems", IF h["sortedItems"] = 0 THEN 0 ELSE 1)

\* fopen("reporte_mvp.txt", "w") and the two header lines; when fopen fails
\* the array is freed and the writer returns
ReportOpen ==
    /\ pcMain = "report_open"
    /\ \E openOk \in BOOLEAN :
         IF ~openOk
         THEN /\ reportState' = "failed"
              /\ sortedItems' = <<>>
              /\ held' = FreedSortedItems(held)
              /\ pcMain' = "cleanup"
         ELSE /\ reportState' = "open"
              /\ held' = Acquire(held, "reportFile", 1)
              /\ pcMain' = "report_rows"
              /\ UNCHANGED sortedItems
    /\ UNCHANGED <<file, exitCode, mainVars, tableVars, mutexVars, workerVars, report,
                   diedOf>>

\* one row per element of the sorted array, fclose, free(sortedItems)
ReportRows ==
    /\ pcMain = "report_rows"
    /\ \/ /\ \E k \in 1 .. Len(sortedItems) : ~FitsBuffer(sortedItems[k].key)
          /\ Crash("BufferOverrun")
          /\ UNCHANGED <<reportVars, held>>
       \/ /\ report' \in
                {[k \in 1 .. Len(sortedItems) |->
                     [key |-> sortedItems[k].key, buffer |-> text[k],
                      value |-> sortedItems[k].value]] :
                 text \in {f \in [1 .. Len(sortedItems) ->
                                    UNION {RowTexts(sortedItems[k].key) :
                                              k \in 1 .. Len(sortedItems)}] :
                              \A k \in 1 .. Len(sortedItems) :
                                  f[k] \in RowTexts(sortedItems[k].key)}}
          /\ reportState' = "closed"
          /\ sortedItems' = <<>>
          /\ held' = FreedSortedItems(Release(held, "reportFile", 1))
          /\ pcMain' = "cleanup"
          /\ UNCHANGED <<exitCode, diedOf>>
    /\ UNCHANGED <<file, mainVars, tableVars, mutexVars, workerVars>>

\* free(threads); free(threadData); freeHashTable(table)
Cleanup ==
    /\ pcMain = "cleanup"
    /\ freeHashTable(Release(Release(held, "threads", 1), "threadData", 1))
    /\ pcMain' = "mutex_destroy"
    /\ UNCHANGED <<file, exitCode, mainVars, mutexVars, workerVars, reportVars,
                   diedOf>>

\* pthread_mutex_destroy(&tableMutex); return EXIT_SUCCESS
DestroyMutex ==
    /\ pcMain = "mutex_destroy"
    /\ mutexState' = "destroyed"
    /\ pcMain' = "done"
    /\ exitCode' = 0
    /\ UNCHANGED <<file, mainVars, tableVars, mutexOwner, workerVars, reportVars,
                   held, diedOf>>

Main ==
    \/ CheckArgs
    \/ CountLines
    \/ CreateTable
    \/ InitMutex
    \/ AllocThreads
    \/ Distribute
    \/ CreateThread
    \/ CreateDone
    \/ JoinThread
    \/ JoinDone
    \/ ReportCollect
    \/ ReportOpen
    \/ ReportRows
    \/ Cleanup
    \/ DestroyMutex

Next == Main \/ \E t \in Threads : Worker(t)

Spec == Init /\ [][Next]_vars

\* The scheduler never stops the whole process while some thread can take a
\* step (no fairness between the threads is assumed).
FairSpec == Spec /\ WF_vars(Next)

\* ============================================================ properties

\* ------------------------------------------------ vocabulary of the claims

\* the entries reachable from the buckets array, as <<bucket, position>>
EntrySet ==
    UNION {{<<b, p>> : p \in 1 .. Len(table.items[b])} : b \in DOMAIN table.items}

EntryAt(e) == table.items[e[1]][e[2]]

EntriesOf(k) == {e \in EntrySet : EntryAt(e).key = k}

\* a record without its trailing carriage returns and newlines
RECURSIVE StripTerminator(_)
StripTerminator(line) ==
    IF Len(line) > 0 /\ line[Len(line)] \in {CR, LF}
    THEN StripTerminator(SubSeq(line, 1, Len(line) - 1))
    ELSE line

ContainsComma(line) == \E i \in 1 .. Len(line) : line[i] = Comma

\* the key of a record: what follows its last comma, terminator stripped
KeyOfRecord(line) ==
    LET body == StripTerminator(line)
        p == CHOOSE i \in 1 .. Len(body) :
                 /\ body[i] = Comma
                 /\ \A q \in (i + 1) .. Len(body) : body[q] # Comma
    IN SubSeq(body, p + 1, Len(body))

Occurrences(k) ==
    Cardinality({i \in 1 .. Len(file) : ContainsComma(file[i]) /\ KeyOfRecord(file[i]) = k})

AllRecordsHaveComma == \A i \in 1 .. Len(file) : ContainsComma(file[i])

NoReaderFailed == \A t \in Threads : ~readFailed[t]

\* every reader read as many records as its range holds
NoShortRead == \A t \in Threads : linesRead[t] = extracted[t]

\* every worker has been joined and the map has not been destroyed yet
AllJoined == pcMain \in {"report", "report_open", "report_rows", "cleanup"}

InCriticalSection(t) ==
    pc[t] \in {"search", "increment", "insert", "unlock_found", "unlock_new"}

WorkerLive(t) == pc[t] \notin {"idle", "done"}

\* the key a worker is presenting to incrementOrInsertHashItem
PresentedKey(t) == fileContent[t][j[t]]

\* ---------------------------------------------------------------------- C1
\* C1: for every file whose records all contain a comma, every worker count
\* and every interleaving, in a run in which every worker's reader succeeded
\* and found all the records of its range, once all workers are joined the map holds for each key of the file exactly
\* one entry, whose count is the number of records with that key, and no
\* entry for any other key.
C1_TallyMatchesFile ==
    (AllJoined /\ AllRecordsHaveComma /\ NoReaderFailed /\ NoShortRead) =>
        \A k \in {KeyOfRecord(file[i]) : i \in 1 .. Len(file)}
                 \cup {EntryAt(e).key : e \in EntrySet} :
            IF Occurrences(k) = 0
            THEN EntriesOf(k) = {}
            ELSE /\ Cardinality(EntriesOf(k)) = 1
                 /\ \A e \in EntriesOf(k) : EntryAt(e).value = Occurrences(k)

\* two workers over "g,A", "A,,AC", "g,A": joined, entries A = 2 and AC = 1
C1_Witness ==
    /\ AllJoined
    /\ NoReaderFailed
    /\ NoShortRead
    /\ numberOfThreads = 2
    /\ file = <<RecA, RecAC, RecA>>
    /\ \E e \in EntrySet : EntryAt(e) = [key |-> <<65>>, value |-> 2]
    /\ \E e \in EntrySet : EntryAt(e) = [key |-> <<65, 67>>, value |-> 1]

\* ---------------------------------------------------------------------- C2
\* C2: while any worker is live, the shared map is read or changed only by a
\* worker that is inside incrementOrInsertHashItem and owns the mutex; at most
\* one worker is inside at a time; the main thread touches the map only when
\* no worker is live; and the result of a call's chain walk is still true of
\* the chain when that call increments or inserts.
C2_Exclusion ==
    /\ \A t \in Threads : InCriticalSection(t) => mutexOwner = t
    /\ \A t, u \in Threads : (InCriticalSection(t) /\ InCriticalSection(u)) => t = u
    /\ (pcMain \in {"report", "report_open", "report_rows", "cleanup"})
           => \A t \in Threads : ~WorkerLive(t)
    /\ \A t \in Threads :
         /\ pc[t] = "insert" => \A p \in 1 .. Len(table.items[index[t]]) :
                                    table.items[index[t]][p].key # PresentedKey(t)
         /\ pc[t] = "increment" =>
                /\ current[t] \in 1 .. Len(table.items[index[t]])
                /\ table.items[index[t]][Len(table.items[index[t]]) - current[t] + 1].key
                       = PresentedKey(t)

C2_StepUnderLock ==
    ((\E t \in Threads : WorkerLive(t)) /\ table' # table) =>
        \E t \in Threads :
            /\ mutexOwner = t
            /\ pc[t] \in {"increment", "insert"}
            /\ pc'[t] \in {"unlock_found", "unlock_new"}
            /\ \A u \in Threads \ {t} : ~InCriticalSection(u)

C2_MapOnlyUnderMutex ==
    [][C2_Exclusion /\ C2_Exclusion' /\ C2_StepUnderLock]_vars

\* one worker is about to change the map while the other waits for the mutex
C2_Witness ==
    \E t, u \in Threads :
        /\ t # u
        /\ pc[t] \in {"increment", "insert"}
        /\ pc[u] = "lock"
        /\ mutexOwner = t

\* ---------------------------------------------------------------------- C3
\* C3: in every reachable state each key appears in at most one entry of the
\* map, also when two workers present the same absent key at the same time.
C3_KeysUnique ==
    \A e, f \in EntrySet : EntryAt(e).key = EntryAt(f).key => e = f

\* a worker inserted a key that the other worker was waiting to present,
\* after both found the map without it
C3_Witness ==
    \E t, u \in Threads :
        /\ t # u
        /\ pc[t] = "unlock_new"
        /\ pc[u] = "lock"
        /\ PresentedKey(u) = PresentedKey(t)
        /\ Cardinality(EntriesOf(PresentedKey(t))) = 1

\* ---------------------------------------------------------------------- C4
RECURSIVE SumOfValues(_)
SumOfValues(S) ==
    IF S = {} THEN 0
    ELSE LET e == CHOOSE x \in S : TRUE
         IN EntryAt(e).value + SumOfValues(S \ {e})

RECURSIVE SumOfRows(_)
SumOfRows(k) == IF k = 0 THEN 0 ELSE report[k].value + SumOfRows(k - 1)

RECURSIVE SumExtracted(_)
SumExtracted(S) ==
    IF S = {} THEN 0
    ELSE LET t == CHOOSE x \in S : TRUE
         IN extracted[t] + SumExtracted(S \ {t})

\* C4: for any file and worker count, after all workers are joined the counts
\* of the map's entries add up to the number of keys the readers handed to the
\* workers, and so do the counts of the report's rows once it is written.
C4_Conservation ==
    /\ AllJoined => SumOfValues(EntrySet) = SumExtracted(Threads)
    /\ reportState = "closed" => SumOfRows(Len(report)) = SumExtracted(Threads)

\* report written from a map that two workers filled with three keys, two of
\* them equal
C4_Witness ==
    /\ pcMain = "cleanup"
    /\ reportState = "closed"
    /\ numberOfThreads = 2
    /\ extracted[0] = 2
    /\ extracted[1] = 1
    /\ SumOfValues(EntrySet) = 3
    /\ \E e \in EntrySet : EntryAt(e).value = 2

\* ---------------------------------------------------------------------- C5
\* the (key, count) pairs of a table, with multiplicity
PairBag(tbl) ==
    LET at == UNION {{<<b, p>> : p \in 1 .. Len(tbl.items[b])} : b \in DOMAIN tbl.items}
        pairs == {tbl.items[e[1]][e[2]] : e \in at}
    IN [x \in pairs |-> Cardinality({e \in at : tbl.items[e[1]][e[2]] = x})]

\* the map a single worker builds from the whole file, fed in file order
SingleWorkerMap ==
    FeedNames(createHashTable(Len(file)),
              CHOOSE names \in RangeNames(file, 0, Len(file)) : TRUE, 1)

\* C5: whatever the worker count and the order in which workers run, the
\* final map holds the same multiset of (key, count) pairs as the run with a
\* single worker (records all with a comma, no reader failure, no short read).
C5_SameAsSingleWorker ==
    (AllJoined /\ AllRecordsHaveComma /\ NoReaderFailed /\ NoShortRead) =>
        PairBag(table) = PairBag(SingleWorkerMap)

\* two workers finished in an order that left a chain arranged differently
\* from the single worker's, with the same pairs
C5_Witness ==
    /\ AllJoined
    /\ AllRecordsHaveComma
    /\ NoReaderFailed
    /\ NoShortRead
    /\ numberOfThreads = 2
    /\ Len(file) = 3
    /\ table # SingleWorkerMap

\* ---------------------------------------------------------------------- C6
Distributed ==
    \/ pcMain \in {"create", "join", "report", "report_open", "report_rows",
                   "cleanup", "mutex_destroy"}
    \/ threadData # <<>>

\* C6: the ranges handed to the numberOfThreads workers start at 0, each
\* starts where the previous one ends, startLine <= endLine <= lineCount, and
\* every record index in [0, lineCount) lies in exactly one range.
C6_PartitionCovers ==
    Distributed =>
        /\ Len(threadData) = numberOfThreads
        /\ numberOfThreads >= 1
        /\ threadData[1].startLine = 0
        /\ \A i \in 1 .. Len(threadData) :
             /\ threadData[i].startLine <= threadData[i].endLine
             /\ threadData[i].endLine <= lineCount
             /\ i < Len(threadData) => threadData[i + 1].startLine = threadData[i].endLine
        /\ \A r \in 0 .. (lineCount - 1) :
             Cardinality({i \in 1 .. Len(threadData) :
                 threadData[i].startLine <= r /\ r < threadData[i].endLine}) = 1

\* three records over two workers: ranges [0,2) and [2,3)
C6_Witness ==
    /\ pcMain = "create"
    /\ lineCount = 3
    /\ numberOfThreads = 2
    /\ threadData[1].endLine = 2
    /\ threadData[2].endLine = 3

\* ---------------------------------------------------------------------- C7
\* Created (spawned, not yet reading), Running, Done
WorkerRank(p) ==
    CASE p = "idle" -> 0
      [] p = "extract" -> 1
      [] p = "done" -> 3
      [] OTHER -> 2

Spawned(t) == t < numberOfThreads

\* the run ended with the report written (or its fopen refused) and exit code 0
FinishedNormally ==
    /\ pcMain = "done"
    /\ exitCode = 0
    /\ reportState \in {"closed", "failed"}
    /\ \A t \in Threads : Spawned(t) => pc[t] = "done"

\* how a run may end: the process died, main returned EXIT_FAILURE, or the
\* normal end
RunEnded ==
    \/ pcMain = "crashed"
    \/ pcMain = "done" /\ exitCode = 1
    \/ FinishedNormally

\* How far each thread has come.  Every step of a worker raises its own
\* number and every step of main raises main's, and both are bounded, so no
\* run takes infinitely many steps.
WorkerProgress(t) ==
    CASE pc[t] = "idle" -> 0
      [] pc[t] = "extract" -> 1
      [] pc[t] = "done" -> (4 * MaxLines) + 8
      [] pc[t] = "search" -> (4 * j[t]) + 1
      [] pc[t] \in {"increment", "insert"} -> (4 * j[t]) + 2
      [] pc[t] \in {"unlock_found", "unlock_new"} -> (4 * j[t]) + 3
      [] OTHER -> 4 * j[t]

RECURSIVE SumProgress(_)
SumProgress(S) ==
    IF S = {} THEN 0
    ELSE LET t == CHOOSE x \in S : TRUE
         IN WorkerProgress(t) + SumProgress(S \ {t})

MainStage ==
    CASE pcMain = "start" -> 0
      [] pcMain = "count" -> 1
      [] pcMain = "create_table" -> 2
      [] pcMain = "mutex_init" -> 3
      [] pcMain = "alloc_threads" -> 4
      [] pcMain = "distribute" -> 5
      [] pcMain = "create" -> 6
      [] pcMain = "join" -> 7
      [] pcMain = "report" -> 8
      [] pcMain = "report_open" -> 9
      [] pcMain = "report_rows" -> 10
      [] pcMain = "cleanup" -> 11
      [] pcMain = "mutex_destroy" -> 12
      [] OTHER -> 13

Progress == (MainStage * (MaxThreads + 1)) + mainI + SumProgress(Threads)

\* C7: the system is deadlock-free and terminates.  No worker ever moves
\* back from Done to Running or from Running to Created; every step advances
\* a bounded progress count, so a run has finitely many steps; the mutex is
\* never requested by its holder and is held only inside a call; and in every
\* reachable state either some thread can take a step or the run has ended.
\* Under fair scheduling every run therefore ends; main gives up with
\* EXIT_FAILURE only before any worker is spawned, so once workers exist the
\* run ends with all of them Done and joined, the report written and exit
\* code 0, unless the process dies on the way (a record without a comma, or a
\* failed allocation that is not checked).
C7_Terminates ==
    /\ [][/\ \A t \in Threads : WorkerRank(pc'[t]) >= WorkerRank(pc[t])
          /\ Progress' > Progress]_vars
    /\ [](\A t \in Threads : pc[t] = "lock" => mutexOwner # t)
    /\ [](\A t \in Threads : mutexOwner = t => InCriticalSection(t))
    /\ []((pcMain = "done" /\ exitCode = 1) => \A t \in Threads : pc[t] = "idle")
    /\ [](RunEnded \/ ENABLED Next)

\* The conclusion of C7 as a liveness property of FairSpec: every run ends.
C7_Live == <>RunEnded

\* a normal end after both workers met on the mutex and left it again
C7_Witness ==
    /\ FinishedNormally
    /\ reportState = "closed"
    /\ numberOfThreads = 2
    /\ extracted[0] = 2
    /\ extracted[1] = 1
    /\ Len(report) = 1
    /\ mutexOwner = NoOwner

\* ---------------------------------------------------------------------- C8
C8_Phases ==
    /\ \A t \in Threads : pc[t] # "idle" => (tableState # "none" /\ mutexState # "uninit")
    /\ \A t \in Threads : WorkerLive(t) => (tableState = "live" /\ mutexState = "ready")
    /\ (pcMain \in {"report", "report_open", "report_rows"}
            \/ reportState # "none" \/ sortedItems # <<>>) =>
           /\ mainI = numberOfThreads
           /\ \A t \in Threads : pc[t] = (IF Spawned(t) THEN "done" ELSE "idle")
    /\ tableState = "freed" =>
           /\ \A t \in Threads : ~WorkerLive(t)
           /\ reportState # "open"
           /\ sortedItems = <<>>
           /\ reportState = "none" => \A t \in Threads : pc[t] = "idle"

C8_Step ==
    /\ (AllJoined \/ pcMain \in {"mutex_destroy", "done"}) =>
           \/ table' = table /\ tableState' = tableState
           \/ pcMain = "cleanup" /\ tableState' = "freed"
    /\ (tableState = "live" /\ tableState' = "freed") =>
           \/ pcMain = "cleanup" /\ reportState \in {"closed", "failed"}
           \/ pcMain = "alloc_threads" /\ \A t \in Threads : pc[t] = "idle"

\* C8: the map and the mutex exist before any worker is spawned; the report
\* writer runs only when every spawned worker is Done and joined; after the
\* last join the map is not changed until it is destroyed; it is destroyed
\* only when the report writer has returned (file closed, or never opened
\* because fopen failed) or when no worker was ever spawned, so no worker and
\* no row of the report uses the map or a borrowed key after destruction.
C8_PhaseOrder == [][C8_Phases /\ C8_Phases' /\ C8_Step]_vars

\* the normal end: map destroyed after a two-row report was closed
C8_Witness ==
    /\ pcMain = "done"
    /\ exitCode = 0
    /\ tableState = "freed"
    /\ mutexState = "destroyed"
    /\ reportState = "closed"
    /\ numberOfThreads = 2
    /\ Len(report) = 2

\* ---------------------------------------------------------------------- C9
RowsLike(x) == {k \in 1 .. Len(report) : report[k].key = x.key /\ report[k].value = x.value}

\* C9: the report has one row per entry of the completed map, distinctCount
\* rows in all, each carrying its entry's key and count, and the counts of
\* the rows never increase from one row to the next.
C9_ReportRows ==
    /\ (pcMain = "cleanup" /\ reportState = "closed") =>
           /\ Len(report) = table.count
           /\ Len(report) = Cardinality(EntrySet)
           /\ \A e \in EntrySet :
                Cardinality(RowsLike(EntryAt(e)))
                    = Cardinality({f \in EntrySet : EntryAt(f) = EntryAt(e)})
           /\ \A k \in 1 .. Len(report) : \E e \in EntrySet :
                EntryAt(e).key = report[k].key /\ EntryAt(e).value = report[k].value
    /\ reportState = "closed" =>
           \A k \in 1 .. (Len(report) - 1) : report[k].value >= report[k + 1].value

\* a closed report whose first row has the larger count although its entry
\* comes later in the bucket traversal
C9_Witness ==
    /\ pcMain = "cleanup"
    /\ reportState = "closed"
    /\ Len(report) = 2
    /\ report[1].value = 2
    /\ report[2].value = 1
    /\ CollectFrom(table, 0)[1].value = 1

\* --------------------------------------------------------------------- C10
C10_CountMatches ==
    (tableState = "live" /\ \A t \in Threads : ~InCriticalSection(t)) =>
        table.count = Cardinality(EntrySet)

C10_Step ==
    /\ (tableState = "none" /\ tableState' = "live") =>
           (table'.count = 0 /\ EntrySet' = {})
    /\ (tableState = "live" /\ tableState' = "live") =>
           /\ Cardinality(EntrySet') \in {Cardinality(EntrySet), Cardinality(EntrySet) + 1}
           /\ table'.count - table.count = Cardinality(EntrySet') - Cardinality(EntrySet)

\* C10: whenever no worker is inside the critical section, count equals the
\* number of entries reachable from the buckets; it is 0 on creation, grows by
\* one with every inserted entry and is unchanged by an increment.
C10_DistinctCount == [][C10_CountMatches /\ C10_CountMatches' /\ C10_Step]_vars

\* between two calls: one entry, inserted and then incremented, and a worker
\* about to present the third key
C10_Witness ==
    /\ tableState = "live"
    /\ \A t \in Threads : ~InCriticalSection(t)
    /\ table.count = 1
    /\ \E e \in EntrySet : EntryAt(e).value = 2
    /\ \E t \in Threads : pc[t] = "lock"

\* --------------------------------------------------------------------- C11
\* the length of the range handed to worker t
RangeLength(t) == threadData[t + 1].endLine - threadData[t + 1].startLine

\* the names of the records in the ranges of the workers t, t+1, ... that
\* belong to S, in file order (every record with a comma)
RECURSIVE NamesOfWorkers(_, _)
NamesOfWorkers(t, S) ==
    IF t >= numberOfThreads THEN <<>>
    ELSE (IF t \in S
          THEN CHOOSE names \in RangeNames(file, threadData[t + 1].startLine,
                                           threadData[t + 1].endLine) : TRUE
          ELSE <<>>)
         \o NamesOfWorkers(t + 1, S)

\* the map that the workers in S alone would leave behind
ContributionMap(S) == FeedNames(createHashTable(lineCount), NamesOfWorkers(0, S), 1)

\* C11: when the reader of a worker fails (fopen refused, or the array not
\* allocated) that worker is Done without having entered its loop: no call of
\* incrementOrInsertHashItem, no hold on the mutex.  The process goes on: main
\* does not give up, every other worker whose reader succeeded works through
\* its whole range, and after the joins the map holds exactly the pairs that
\* the workers whose reader succeeded contribute (records all with a comma,
\* no short read).
C11_ReaderFailureIsLocal ==
    /\ \A t \in Threads : readFailed[t] =>
           /\ pc[t] = "done"
           /\ j[t] = 0
           /\ extracted[t] = 0
           /\ mutexOwner # t
    /\ (\E t \in Threads : readFailed[t]) => ~(pcMain = "done" /\ exitCode = 1)
    /\ \A u \in Threads : (pc[u] = "done" /\ ~readFailed[u]) =>
           /\ extracted[u] = RangeLength(u)
           /\ j[u] = RangeLength(u) + 1
    /\ (AllJoined /\ AllRecordsHaveComma /\ NoShortRead) =>
           PairBag(table) = PairBag(ContributionMap({t \in Threads : ~readFailed[t]}))

\* "g,A", "A,,AC", "g,A" over two workers: the reader of worker 0 failed,
\* worker 1 counted its one record, and the map holds A = 1 and nothing else
C11_Witness ==
    /\ AllJoined
    /\ numberOfThreads = 2
    /\ file = <<RecA, RecAC, RecA>>
    /\ readFailed[0]
    /\ ~readFailed[1]
    /\ extracted[1] = 1
    /\ linesRead[1] = 1
    /\ table.count = 1
    /\ \E e \in EntrySet : EntryAt(e) = [key |-> <<65>>, value |-> 1]

\* --------------------------------------------------------------------- C12
\* C12, as claimed: when createHashItem cannot allocate the new item or its
\* key, the call gives the mutex back and leaves count and the chains as they
\* were, so that the other workers go on.  Stated on the model, for files
\* whose records all have a comma: the process never dies of the NULL item
\* with a worker still inside the locked region.
\* The code does not check the result of createHashItem (the TODO above the
\* call): newItem->next dereferences NULL before the unlock is reached.
C12_AllocationFailureHandled ==
    AllRecordsHaveComma =>
        ~(/\ diedOf = "NullItem"
          /\ \E t \in Threads : pc[t] = "insert" /\ mutexOwner = t)

\* --------------------------------------------------------------------- C13
\* C13, as claimed: exit code 0 means the run succeeded; in particular a
\* report file that could not be created makes the exit code 1.  The code's
\* report writer returns nothing: when fopen of the report fails main still
\* ends with EXIT_SUCCESS.
C13_ExitCodeTellsFailure ==
    (pcMain = "done" /\ exitCode = 0) => reportState = "closed"

\* --------------------------------------------------------------------- C14
\* C14, as claimed: the file whose only record is a comma-less line, read by
\* one worker that finds the record, never kills the process, and once the
\* worker is joined the map holds exactly one item: the whole line without
\* its terminator, with count 1.  In the code strrchr returns NULL for such
\* a line and strdup(NULL + 1) is undefined.
C14_NoCommaKeyIsWholeLine ==
    (file = <<RecNoComma>> /\ numberOfThreads = 1) =>
        /\ diedOf # "NoComma"
        /\ (AllJoined /\ ~readFailed[0] /\ linesRead[0] = 1) =>
               /\ table.count = 1
               /\ table.items[0] = <<[key |-> StripTerminator(RecNoComma), value |-> 1]>>

\* --------------------------------------------------------------------- C15
\* C15, as claimed: when a reader reads fewer records than its range holds,
\* the worker gets only the names read, and calls incrementOrInsertHashItem
\* and free once per record read, never for a slot the reader left unfilled.
\* The code returns the array at its full length without the number read, and
\* the worker's loop runs over endLine - startLine slots.
C15_OnlyRecordsRead ==
    \A t \in Threads :
        /\ extracted[t] = linesRead[t]
        /\ pc[t] \in {"lock", "search", "increment", "insert",
                      "unlock_found", "unlock_new"} => j[t] <= linesRead[t]

\* --------------------------------------------------------------------- C16
\* a step of the run in which nothing is refused and nothing dies: no
\* EXIT_FAILURE, no reader failure, no refused report file
C16_SuccessStep ==
    /\ Next
    /\ exitCode' # 1
    /\ pcMain' # "crashed"
    /\ readFailed' = readFailed
    /\ reportState' = "failed" => reportState = "failed"

\* C16: with an empty input file and any worker count the run succeeds.  The
\* process never dies; the map is created with 0 buckets and stays empty;
\* every worker gets the range [0,0), makes no call and never takes the mutex;
\* the written report has no rows; main gives up only before it spawns a
\* worker (bad arguments, fopen or malloc refused); and as long as the run has
\* not ended it can take a step in which nothing is refused, so that a run
\* without refused fopen or malloc ends with the header-only report and exit
\* code 0.
C16_EmptyFileSucceeds ==
    Len(file) = 0 =>
        /\ diedOf = "none" /\ pcMain # "crashed"
        /\ lineCount = 0
        /\ tableState = "live" => table.size = 0 /\ table.count = 0
        /\ Distributed =>
               /\ Len(threadData) = numberOfThreads
               /\ \A i \in 1 .. Len(threadData) :
                      threadData[i].startLine = 0 /\ threadData[i].endLine = 0
        /\ \A t \in Threads :
               /\ pc[t] \in {"idle", "extract", "exit", "done"}
               /\ extracted[t] = 0
        /\ mutexOwner = NoOwner
        /\ report = <<>>
        /\ (pcMain = "done" /\ exitCode = 1) => \A t \in Threads : pc[t] = "idle"
        /\ ~RunEnded => ENABLED C16_SuccessStep

\* the empty file with two workers: both Done without reader failure, the
\* report written with no rows, exit code 0
C16_Witness ==
    /\ file = <<>>
    /\ numberOfThreads = 2
    /\ pcMain = "done"
    /\ exitCode = 0
    /\ reportState = "closed"
    /\ report = <<>>
    /\ \A t \in {0, 1} : pc[t] = "done" /\ ~readFailed[t]
    /\ threadData[1] = [tid |-> 0, startLine |-> 0, endLine |-> 0]
    /\ threadData[2].endLine = 0

\* --------------------------------------------------------------------- C17
\* worker t was handed an empty range
EmptyRange(t) == Distributed /\ Spawned(t) /\ RangeLength(t) = 0

\* C17: a worker whose range is empty (startLine = endLine) never enters the
\* loop: it is never inside a call of incrementOrInsertHashItem, so it never
\* takes the mutex and no step of it touches the map; once it has run it is
\* at its exit or Done.  After the joins the map is the one that the workers
\* with a non-empty range contribute by themselves (records all with a comma,
\* no reader failure among them left out, no short read).
C17_EmptyRangeIsNoOp ==
    /\ \A t \in Threads : EmptyRange(t) =>
           /\ pc[t] \in {"idle", "extract", "exit", "done"}
           /\ extracted[t] = 0
           /\ fileContent[t] = <<>>
           /\ mutexOwner # t
           /\ j[t] \in {0, 1}
    /\ (AllJoined /\ AllRecordsHaveComma /\ NoShortRead) =>
           PairBag(table) =
               PairBag(ContributionMap({t \in Threads :
                                           ~readFailed[t] /\ ~EmptyRange(t)}))

\* one record "g,A" and two workers: worker 1 has the range [1,1), its reader
\* succeeded, it is Done, and the map holds what worker 0 put there
C17_Witness ==
    /\ AllJoined
    /\ file = <<RecA>>
    /\ numberOfThreads = 2
    /\ threadData[2].startLine = 1
    /\ threadData[2].endLine = 1
    /\ pc[1] = "done"
    /\ ~readFailed[1]
    /\ ~readFailed[0]
    /\ j[1] = 1
    /\ table.count = 1
    /\ \E e \in EntrySet : EntryAt(e) = [key |-> <<65>>, value |-> 1]

\* --------------------------------------------------------------------- C18
\* C18: nothing is given back that is not held (no second free or fclose);
\* once every spawned worker is Done the workers hold no extracted name, no
\* name array and no file handle; and when main returns EXIT_SUCCESS nothing
\* is held any more: no file handle, no map entry or key copy, no buckets
\* array or map header, no worker arrays, no sortable buffer; the map is
\* freed and the mutex destroyed.
C18_AllReleased ==
    /\ \A r \in Resources : held[r] >= 0
    /\ held["lineCountFile"] = 0
    /\ (pcMain # "crashed" /\ \A t \in Threads : pc[t] \in {"idle", "done"}) =>
           /\ held["playerName"] = 0
           /\ held["playerNames"] = 0
           /\ held["workerFile"] = 0
    /\ (pcMain = "done" /\ exitCode = 0) =>
           /\ \A r \in Resources : held[r] = 0
           /\ tableState = "freed"
           /\ mutexState = "destroyed"

\* a run over three records and two workers that wrote two rows and returned
\* EXIT_SUCCESS with nothing held
C18_Witness ==
    /\ pcMain = "done"
    /\ exitCode = 0
    /\ Len(file) = 3
    /\ numberOfThreads = 2
    /\ Len(report) = 2
    /\ reportState = "closed"
    /\ NoReaderFailed
    /\ \A r \in Resources : held[r] = 0

\* --------------------------------------------------------------------- C19
\* the bytes of the key whose top two bits are not 10
VisibleBytes(key) == {i \in 1 .. Len(key) : key[i] \div 64 # 2}

\* the key followed by max(0, 24 - v) spaces, v the number of visible bytes
ClaimedPrefix(key) ==
    LET v == Cardinality(VisibleBytes(key))
    IN key \o Repeat(Space, IF 24 - v > 0 THEN 24 - v ELSE 0)

\* C19, as claimed: in every row of the report the text before the '|' is
\* the key followed by exactly max(0, 24 - v) spaces.  The code builds the
\* text in char buffer[100] with strcpy and strcat, whatever the length of
\* the key.
C19_PaddedPrefix ==
    \A k \in 1 .. Len(report) : report[k].buffer = ClaimedPrefix(report[k].key)

\* --------------------------------------------------------------------- C20
\* ceil(a / b) for a >= 0, b >= 1: the least c with c * b >= a
Ceiling(a, b) == CHOOSE c \in 0 .. a : c * b >= a /\ \A d \in 0 .. (c - 1) : d * b < a

Min(a, b) == IF a <= b THEN a ELSE b

\* the closed form of the spec for worker i of numberOfThreads
ClosedFormStart(i) == Min(i * Ceiling(lineCount, numberOfThreads), lineCount)
ClosedFormEnd(i) ==
    Min(ClosedFormStart(i) + Ceiling(lineCount, numberOfThreads), lineCount)

InCall(t) == pc[t] = "lock" \/ InCriticalSection(t)

\* C21: whenever a worker is inside a call of incrementOrInsertHashItem the
\* map is live with capacity = totalLines >= 1 and one bucket per index in
\* [0, capacity); once the worker has computed its index, the index is the
\* hash of the presented key for that capacity and lies in [0, capacity);
\* and every entry of the map sits in the bucket at its own key's index.
C21_IndexValid ==
    /\ \A t \in Threads : InCall(t) =>
           /\ tableState = "live"
           /\ table.size = lineCount
           /\ table.size >= 1
           /\ DOMAIN table.items = 0 .. (table.size - 1)
    /\ \A t \in Threads : InCriticalSection(t) =>
           /\ index[t] = hashGenerator(PresentedKey(t), table.size)
           /\ index[t] >= 0
           /\ index[t] < table.size
    /\ \A e \in EntrySet :
           /\ e[1] \in 0 .. (table.size - 1)
           /\ e[1] = hashGenerator(EntryAt(e).key, table.size)

\* three records "A,,AC", "g,M", ... in a map of three buckets: AC sits in
\* bucket 0, a worker holding the mutex presents M with index 2, and the
\* buckets in use differ
C21_Witness ==
    /\ table.size = 3
    /\ \E t \in Threads :
           /\ pc[t] = "insert"
           /\ PresentedKey(t) = <<77>>
           /\ index[t] = 2
    /\ \E e \in EntrySet : EntryAt(e).key = <<65, 67>> /\ e[1] = 0

====
